---- MODULE Spec2Model ----
(***************************************************************************)
(* A model of LlamaScope (src/llamascope.py): the module index built at    *)
(* construction, the hook bookkeeping, the activations cache and the       *)
(* override store, together with the forward call of an instrumented       *)
(* sub-module; and of the inference loop that drives it                    *)
(* (src/activations_collection.py).                                        *)
(*                                                                         *)
(* Python strings are sequences of one-character strings, so that '+' is   *)
(* sequence concatenation and a name may itself hold the separator.        *)
(***************************************************************************)
EXTENDS Integers, Sequences, FiniteSets, TLC

VARIABLES
    model,              \* the component tree handed to __init__
    module_dict,        \* self._module_dict : path -> sub-module
    hooks,              \* self.hooks : hook_name -> handle
    forward_hooks,      \* per sub-module, the callbacks attached to it, in order
    activations_cache,  \* self.activations_cache : module_str -> list of outputs
    override_store,     \* self.override_store : module_str -> tensor or None
    next_id,            \* the next handle the attach operation hands out
    last,               \* the last call made and how it ended
    loop                \* the inference loop of activations_collection.main

vars == <<model, module_dict, hooks, forward_hooks, activations_cache,
          override_store, next_id, last, loop>>

----------------------------------------------------------------------------
(* Bounds of the model. *)

\* The largest number of sub-modules of a tree the index is built for.
MaxNodes == 3
\* The number of handles the attach operation hands out in a run.
MaxHooks == 2
\* The longest activation buffer a run grows.
MaxBuf == 2
\* The most batches the dataloader yields to the inference loop.
MaxBatches == 203

----------------------------------------------------------------------------
(* Strings. *)

SEP == <<"-">>
CACHE_PREFIX == <<"c", "a", "c", "h", "e", "-">>
OVERRIDE_PREFIX == <<"o", "v", "e", "r", "r", "i", "d", "e", "-">>

\* Python's None, and the exception a missing dict key raises.
None == "None"
OK == "ok"
KeyError == "KeyError"

\* The names a child may be registered under: nn.Module rejects only the
\* empty name and names holding a dot, so a name may hold a dash.
Names == {<<"a">>, <<"b">>, <<"x">>, <<"a", "-", "x">>}

\* The tensors a sub-module computes and a caller overrides with.
Tensors == {"u", "v"}

----------------------------------------------------------------------------
(* Python dicts: functions with a finite domain. *)

EmptyDict == <<>>

Put(d, k, v) == [x \in (DOMAIN d) \cup {k} |-> IF x = k THEN v ELSE d[x]]

Del(d, k) == [x \in (DOMAIN d) \ {k} |-> d[x]]

Range(d) == {d[x] : x \in DOMAIN d}

----------------------------------------------------------------------------
(* The component tree: sub-modules are numbered 1..n in the order they     *)
(* were registered, 0 is the model itself, parent[i] < i, and the children *)
(* of one node carry distinct names (they are the keys of its _modules).   *)

Size(t) == Len(t.parent)

Modules(t) == 1..Size(t)

\* module.named_children(): the children of m with their names, in order.
named_children(t, m) ==
    SelectSeq([i \in 1..Size(t) |-> i], LAMBDA i : t.parent[i] = m)

SiblingsDistinct(t) ==
    \A i, j \in Modules(t) :
        (i # j /\ t.parent[i] = t.parent[j]) => t.name[i] # t.name[j]

TreesOfSize(n) ==
    {t \in [parent : {p \in [1..n -> 0..(n - 1)] : \A i \in 1..n : p[i] < i},
            name : [1..n -> Names]] : SiblingsDistinct(t)}

Trees == UNION {TreesOfSize(n) : n \in 0..MaxNodes}

\* The trees the hook operations are run on: root -> {a}, a -> {x}, where
\* "a" and "a-x" are both paths of the index, and root -> {a}, where "a-x"
\* is not.
ScopeModels ==
    {[parent |-> <<0, 1>>, name |-> <<(<<"a">>), (<<"x">>)>>],
     [parent |-> <<0>>, name |-> <<(<<"a">>)>>]}

----------------------------------------------------------------------------
(* _build_module_dict: the recursive walk. *)

RECURSIVE recurse(_, _, _, _)
recurse(t, children, prefix, d) ==
    IF children = <<>> THEN d
    ELSE LET child == Head(children)
             key == prefix \o t.name[child]
             d1 == Put(d, key, child)
             d2 == recurse(t, named_children(t, child), key \o SEP, d1)
         IN recurse(t, Tail(children), prefix, d2)

build_module_dict(t) == recurse(t, named_children(t, 0), <<>>, EmptyDict)

\* list_modules()
list_modules == DOMAIN module_dict

----------------------------------------------------------------------------
(* The LlamaScope object as a record, and how a call ends. *)

Scope ==
    [hooks |-> hooks, forward_hooks |-> forward_hooks,
     activations_cache |-> activations_cache,
     override_store |-> override_store, next_id |-> next_id]

Return(s) == [s |-> s, err |-> OK]

Raise(s) == [s |-> s, err |-> KeyError]

\* The callbacks: the two closures LlamaScope builds, each over its
\* module_str, and a caller's own callback, which observes and returns None.
caching_hook_fn(module_str) == [kind |-> "cache", module_str |-> module_str]

override_hook_fn(module_str) == [kind |-> "override", module_str |-> module_str]

ObserverFn == [kind |-> "observer", module_str |-> <<>>]

----------------------------------------------------------------------------
(* Generic hook registration. *)

\* module.register_forward_hook(hook_fn): a fresh handle, the callback
\* appended to the module's forward hooks.
register_forward_hook(s, module, hook_fn) ==
    [s EXCEPT !.forward_hooks[module] =
                  Append(@, [id |-> s.next_id, fn |-> hook_fn]),
              !.next_id = @ + 1]

\* add_hook as a registration that replaces: the handle recorded under
\* hook_name, if any, is removed before the new one is recorded.
add_hook_replacing(s, hook_fn, module_str, hook_name) ==
    IF module_str \notin DOMAIN module_dict THEN Raise(s)
    ELSE LET module == module_dict[module_str]
             s0 == IF hook_name \in DOMAIN s.hooks
                   THEN [s EXCEPT !.forward_hooks =
                            [m \in DOMAIN @ |->
                                SelectSeq(@[m],
                                    LAMBDA cb : cb.id # s.hooks[hook_name])]]
                   ELSE s
             hook_handle == s0.next_id
             s1 == register_forward_hook(s0, module, hook_fn)
         IN Return([s1 EXCEPT !.hooks = Put(@, hook_name, hook_handle)])

\* add_hook that records the name before it resolves the path.
add_hook_recording(s, hook_fn, module_str, hook_name) ==
    LET s0 == [s EXCEPT !.hooks = Put(@, hook_name, s.next_id)]
    IN IF module_str \notin DOMAIN module_dict THEN Raise(s0)
       ELSE LET module == module_dict[module_str]
                s1 == register_forward_hook(s0, module, hook_fn)
            IN Return(s1)

add_hook(s, hook_fn, module_str, hook_name) ==
    IF module_str \notin DOMAIN module_dict THEN Raise(s)
    ELSE LET module == module_dict[module_str]
             hook_handle == s.next_id
             s1 == register_forward_hook(s, module, hook_fn)
         IN Return([s1 EXCEPT !.hooks = Put(@, hook_name, hook_handle)])

\* A handle whose remove() leaves the callback attached.
handle_remove_kept(s, hook_handle) == s

\* hook_handle.remove(): the callback with this handle leaves its module.
handle_remove(s, hook_handle) ==
    [s EXCEPT !.forward_hooks =
        [m \in DOMAIN @ |-> SelectSeq(@[m], LAMBDA cb : cb.id # hook_handle)]]

\* remove_hook that passes over a name it does not know.
remove_hook_quiet(s, hook_name) ==
    IF hook_name \notin DOMAIN s.hooks THEN Return(s)
    ELSE LET s1 == handle_remove(s, s.hooks[hook_name])
         IN Return([s1 EXCEPT !.hooks = Del(@, hook_name)])

remove_hook(s, hook_name) ==
    IF hook_name \notin DOMAIN s.hooks THEN Raise(s)
    ELSE LET s1 == handle_remove(s, s.hooks[hook_name])
         IN Return([s1 EXCEPT !.hooks = Del(@, hook_name)])

\* A walk over the hook names that stops after the first removal.
remove_hooks_first(r, names) ==
    IF names = {} \/ r.err # OK THEN r
    ELSE remove_hook(r.s, CHOOSE n \in names : TRUE)

RECURSIVE remove_hooks_in(_, _)
remove_hooks_in(r, names) ==
    IF names = {} \/ r.err # OK THEN r
    ELSE LET hook_name == CHOOSE n \in names : TRUE
         IN remove_hooks_in(remove_hook(r.s, hook_name), names \ {hook_name})

\* remove_all_hooks walking the live dict: the first deletion changes its
\* size and the walk raises.
remove_all_hooks_live(s) ==
    IF DOMAIN s.hooks = {} THEN Return(s)
    ELSE LET hook_name == CHOOSE n \in DOMAIN s.hooks : TRUE
         IN [s |-> remove_hook(s, hook_name).s, err |-> "RuntimeError"]

remove_all_hooks(s) == remove_hooks_in(Return(s), DOMAIN s.hooks)

----------------------------------------------------------------------------
(* Activations caching. *)

build_caching_hook(s, module_str) ==
    [s |-> [s EXCEPT !.activations_cache = Put(@, module_str, <<>>)],
     hook_fn |-> caching_hook_fn(module_str)]

add_caching_hook(s, module_str) ==
    LET b == build_caching_hook(s, module_str)
    IN add_hook(b.s, b.hook_fn, module_str, CACHE_PREFIX \o module_str)

\* clear_cache that resets every buffer.
clear_cache_every(s, module_str) ==
    IF module_str \notin DOMAIN s.activations_cache THEN Raise(s)
    ELSE Return([s EXCEPT !.activations_cache =
                              [k \in DOMAIN @ |-> <<>>]])

\* clear_cache that creates the buffer it does not find.
clear_cache_creating(s, module_str) ==
    Return([s EXCEPT !.activations_cache = Put(@, module_str, <<>>)])

clear_cache(s, module_str) ==
    IF module_str \notin DOMAIN s.activations_cache THEN Raise(s)
    ELSE Return([s EXCEPT !.activations_cache[module_str] = <<>>])

RECURSIVE clear_caches_in(_, _)
clear_caches_in(r, keys) ==
    IF keys = {} \/ r.err # OK THEN r
    ELSE LET module_str == CHOOSE k \in keys : TRUE
         IN clear_caches_in(clear_cache(r.s, module_str), keys \ {module_str})

clear_all_caches(s) == clear_caches_in(Return(s), DOMAIN s.activations_cache)

\* remove_cache that takes the caching hook away with the buffer.
remove_cache_detaching(s, module_str) ==
    IF module_str \notin DOMAIN s.activations_cache THEN Raise(s)
    ELSE LET s1 == [s EXCEPT !.activations_cache = Del(@, module_str)]
         IN IF CACHE_PREFIX \o module_str \in DOMAIN s1.hooks
            THEN remove_hook(s1, CACHE_PREFIX \o module_str)
            ELSE Return(s1)

remove_cache(s, module_str) ==
    IF module_str \notin DOMAIN s.activations_cache THEN Raise(s)
    ELSE Return([s EXCEPT !.activations_cache = Del(@, module_str)])

RECURSIVE remove_caches_in(_, _)
remove_caches_in(r, keys) ==
    IF keys = {} \/ r.err # OK THEN r
    ELSE LET cache_str == CHOOSE k \in keys : TRUE
         IN remove_caches_in(remove_cache(r.s, cache_str), keys \ {cache_str})

remove_all_caches(s) == remove_caches_in(Return(s), DOMAIN s.activations_cache)

----------------------------------------------------------------------------
(* Activation override. *)

build_override_hook(s, module_str) ==
    [s |-> [s EXCEPT !.override_store = Put(@, module_str, None)],
     hook_fn |-> override_hook_fn(module_str)]

\* add_override_hook that registers under the caching hook's name.
add_override_hook_as_cache(s, module_str) ==
    LET b == build_override_hook(s, module_str)
    IN add_hook(b.s, b.hook_fn, module_str, CACHE_PREFIX \o module_str)

add_override_hook(s, module_str) ==
    LET b == build_override_hook(s, module_str)
    IN add_hook(b.s, b.hook_fn, module_str, OVERRIDE_PREFIX \o module_str)

override(s, module_str, override_tensor) ==
    Return([s EXCEPT !.override_store = Put(@, module_str, override_tensor)])

clear_override(s, module_str) ==
    Return([s EXCEPT !.override_store = Put(@, module_str, None)])

RECURSIVE clear_overrides_in(_, _)
clear_overrides_in(r, keys) ==
    IF keys = {} \/ r.err # OK THEN r
    ELSE LET module_str == CHOOSE k \in keys : TRUE
         IN clear_overrides_in(clear_override(r.s, module_str), keys \ {module_str})

clear_all_overrides(s) == clear_overrides_in(Return(s), DOMAIN s.override_store)

----------------------------------------------------------------------------
(* The forward call of one sub-module: it computes its output, then its    *)
(* forward hooks run in the order they were attached; a result that is not *)
(* None replaces the output the next hook and the caller see.              *)

\* One callback called with (module, input, output).
call_hook(s, hook_fn, output) ==
    IF hook_fn.kind = "cache" THEN
        IF hook_fn.module_str \notin DOMAIN s.activations_cache
        THEN [s |-> s, err |-> KeyError, result |-> None]
        ELSE [s |-> [s EXCEPT !.activations_cache[hook_fn.module_str] =
                                  Append(@, output)],
              err |-> OK, result |-> None]
    ELSE IF hook_fn.kind = "override" THEN
        IF hook_fn.module_str \notin DOMAIN s.override_store
        THEN [s |-> s, err |-> KeyError, result |-> None]
        ELSE [s |-> s, err |-> OK,
              result |-> s.override_store[hook_fn.module_str]]
    ELSE [s |-> s, err |-> OK, result |-> None]

\* A registration layer that drops what a callback returns, and one that
\* takes None for a replacement too.
hook_result_dropped(result, output) == output

hook_result_verbatim(result, output) == result

\* What the registration layer does with a callback's result.
hook_result(result, output) == IF result # None THEN result ELSE output

RECURSIVE run_forward_hooks(_, _, _)
run_forward_hooks(s, callbacks, output) ==
    IF callbacks = <<>> THEN [s |-> s, err |-> OK, out |-> output]
    ELSE LET c == call_hook(s, Head(callbacks).fn, output)
         IN IF c.err # OK THEN [s |-> c.s, err |-> c.err, out |-> None]
            ELSE run_forward_hooks(c.s, Tail(callbacks),
                                   hook_result(c.result, output))

forward(s, module, output) ==
    run_forward_hooks(s, s.forward_hooks[module], output)

----------------------------------------------------------------------------
(* The state machine: one action per call a driver makes. *)

\* The module_str arguments a caller passes.
PathArgs == {<<"a">>, <<"a", "-", "x">>}

\* The hook_name arguments a caller passes to remove_hook: the names
\* LlamaScope forms for those paths, and one of the caller's own.
HookNameArgs ==
    {<<"h">>} \cup {CACHE_PREFIX \o p : p \in PathArgs}
              \cup {OVERRIDE_PREFIX \o p : p \in PathArgs}

\* The hook_name arguments a caller passes to add_hook: a name of its own
\* and a name LlamaScope forms too.
UserHookNames == {<<"h">>, CACHE_PREFIX \o <<"a">>}

\* No inference loop is running.
NoLoop ==
    [pc |-> "none", cat_takes_tensor |-> FALSE, i |-> 0, num_written |-> 0,
     tokens_cache |-> <<>>, saved |-> <<>>, err |-> OK]

Call(op, path, name, err) ==
    [op |-> op, path |-> path, name |-> name, module |-> 0,
     raw |-> None, out |-> None, keys |-> {}, err |-> err]

Commit(s) ==
    /\ hooks' = s.hooks
    /\ forward_hooks' = s.forward_hooks
    /\ activations_cache' = s.activations_cache
    /\ override_store' = s.override_store
    /\ next_id' = s.next_id
    /\ UNCHANGED <<model, module_dict, loop>>

\* LlamaScope(model): the state after construction.
Init ==
    /\ model \in ScopeModels
    /\ module_dict = build_module_dict(model)
    /\ hooks = EmptyDict
    /\ forward_hooks = [m \in Modules(model) |-> <<>>]
    /\ activations_cache = EmptyDict
    /\ override_store = EmptyDict
    /\ next_id = 1
    /\ last = Call("__init__", <<>>, <<>>, OK)
    /\ loop = NoLoop

AddHook(module_str, hook_name) ==
    /\ next_id <= MaxHooks
    /\ LET r == add_hook(Scope, ObserverFn, module_str, hook_name)
       IN /\ Commit(r.s)
          /\ last' = Call("add_hook", module_str, hook_name, r.err)

RemoveHook(hook_name) ==
    LET r == remove_hook(Scope, hook_name)
    IN /\ Commit(r.s)
       /\ last' = Call("remove_hook", <<>>, hook_name, r.err)

RemoveAllHooks ==
    LET r == remove_all_hooks(Scope)
    IN /\ Commit(r.s)
       /\ last' = Call("remove_all_hooks", <<>>, <<>>, r.err)

AddCachingHook(module_str) ==
    /\ next_id <= MaxHooks
    /\ LET r == add_caching_hook(Scope, module_str)
       IN /\ Commit(r.s)
          /\ last' = Call("add_caching_hook", module_str, <<>>, r.err)

ClearCache(module_str) ==
    LET r == clear_cache(Scope, module_str)
    IN /\ Commit(r.s)
       /\ last' = Call("clear_cache", module_str, <<>>, r.err)

ClearAllCaches ==
    LET r == clear_all_caches(Scope)
    IN /\ Commit(r.s)
       /\ last' = Call("clear_all_caches", <<>>, <<>>, r.err)

RemoveCache(module_str) ==
    LET r == remove_cache(Scope, module_str)
    IN /\ Commit(r.s)
       /\ last' = Call("remove_cache", module_str, <<>>, r.err)

RemoveAllCaches ==
    LET r == remove_all_caches(Scope)
    IN /\ Commit(r.s)
       /\ last' = Call("remove_all_caches", <<>>, <<>>, r.err)

AddOverrideHook(module_str) ==
    /\ next_id <= MaxHooks
    /\ LET r == add_override_hook(Scope, module_str)
       IN /\ Commit(r.s)
          /\ last' = Call("add_override_hook", module_str, <<>>, r.err)

Override(module_str, override_tensor) ==
    LET r == override(Scope, module_str, override_tensor)
    IN /\ Commit(r.s)
       /\ last' = Call("override", module_str, <<>>, r.err)

ClearOverride(module_str) ==
    LET r == clear_override(Scope, module_str)
    IN /\ Commit(r.s)
       /\ last' = Call("clear_override", module_str, <<>>, r.err)

ClearAllOverrides ==
    LET r == clear_all_overrides(Scope)
    IN /\ Commit(r.s)
       /\ last' = Call("clear_all_overrides", <<>>, <<>>, r.err)

\* One forward call of a sub-module during an invocation of the model; the
\* sub-module computes `output`.
Forward(module, output) ==
    LET r == forward(Scope, module, output)
    IN /\ \A k \in DOMAIN r.s.activations_cache :
              Len(r.s.activations_cache[k]) <= MaxBuf
       /\ Commit(r.s)
       /\ last' = [Call("forward", <<>>, <<>>, r.err)
                       EXCEPT !.module = module, !.raw = output, !.out = r.out]

Next ==
    \/ \E p \in PathArgs, n \in UserHookNames : AddHook(p, n)
    \/ \E n \in HookNameArgs : RemoveHook(n)
    \/ RemoveAllHooks
    \/ \E p \in PathArgs : AddCachingHook(p)
    \/ \E p \in PathArgs : ClearCache(p)
    \/ ClearAllCaches
    \/ \E p \in PathArgs : RemoveCache(p)
    \/ RemoveAllCaches
    \/ \E p \in PathArgs : AddOverrideHook(p)
    \/ \E p \in PathArgs, t \in Tensors : Override(p, t)
    \/ \E p \in PathArgs : ClearOverride(p)
    \/ ClearAllOverrides
    \/ \E m \in Modules(model), t \in Tensors : Forward(m, t)

Spec == Init /\ [][Next]_vars

----------------------------------------------------------------------------
(* Construction alone, for every tree of at most MaxNodes sub-modules. *)

InitIndex ==
    /\ model \in Trees
    /\ module_dict = EmptyDict
    /\ hooks = EmptyDict
    /\ forward_hooks = [m \in Modules(model) |-> <<>>]
    /\ activations_cache = EmptyDict
    /\ override_store = EmptyDict
    /\ next_id = 1
    /\ last = Call("new", <<>>, <<>>, OK)
    /\ loop = NoLoop

\* __init__: the module dict is built.
Construct ==
    /\ last.op = "new"
    /\ module_dict' = build_module_dict(model)
    /\ last' = Call("__init__", <<>>, <<>>, OK)
    /\ UNCHANGED <<model, hooks, forward_hooks, activations_cache,
                   override_store, next_id, loop>>

ListModules ==
    /\ last.op # "new"
    /\ last' = [Call("list_modules", <<>>, <<>>, OK) EXCEPT !.keys = list_modules]
    /\ UNCHANGED <<model, module_dict, hooks, forward_hooks, activations_cache,
                   override_store, next_id, loop>>

NextIndex == Construct \/ ListModules

SpecIndex == InitIndex /\ [][NextIndex]_vars

----------------------------------------------------------------------------
(* The inference loop of activations_collection.main: a caching hook at    *)
(* 'layers-16', then one iteration per batch the dataloader yields.  A     *)
(* tensor is the sequence of its rows; the batch of step n is one row of   *)
(* one token, tagged with n.                                               *)

write_every == 100

location == <<"l", "a", "y", "e", "r", "s", "-", "1", "6">>

\* generator.model, as far as the loop reaches into it: layers, and its
\* child 16.
DriverModel ==
    [parent |-> <<0, 1>>,
     name |-> <<(<<"l", "a", "y", "e", "r", "s">>), (<<"1", "6">>)>>]

\* data['tokens'] at step n of enumerate(dataloader).
Toks(n) == <<(<<[batch |-> n]>>)>>

\* What layer 16 computes for a batch: one row of activations per row of
\* tokens.
layer_output(toks) == [r \in DOMAIN toks |-> [acts_of |-> toks[r]]]

\* torch.cat along dimension 0.
RECURSIVE cat(_)
cat(tensors) ==
    IF tensors = <<>> THEN <<>> ELSE Head(tensors) \o cat(Tail(tensors))

\* The file name f'activations/{location}-{num_written}.pt'.
file_name(num_written) == [location |-> location, num_written |-> num_written]

Store(s) ==
    /\ hooks' = s.hooks
    /\ forward_hooks' = s.forward_hooks
    /\ activations_cache' = s.activations_cache
    /\ override_store' = s.override_store
    /\ next_id' = s.next_id
    /\ UNCHANGED <<model, module_dict>>

\* main up to the loop: LlamaScope(generator.model) is constructed.  torch.cat
\* is later handed the tensor toks where it takes a sequence of tensors:
\* the torch build either rejects it (TypeError) or reads it as the
\* sequence of its rows.
InitDriver ==
    /\ model = DriverModel
    /\ module_dict = build_module_dict(model)
    /\ hooks = EmptyDict
    /\ forward_hooks = [m \in Modules(model) |-> <<>>]
    /\ activations_cache = EmptyDict
    /\ override_store = EmptyDict
    /\ next_id = 1
    /\ last = Call("__init__", <<>>, <<>>, OK)
    /\ \E b \in BOOLEAN : loop = [NoLoop EXCEPT !.pc = "attach",
                                                !.cat_takes_tensor = b]

\* scope.add_caching_hook(location), and the loop's variables are set up.
Attach ==
    /\ loop.pc = "attach"
    /\ LET r == add_caching_hook(Scope, location)
       IN /\ Store(r.s)
          /\ last' = Call("add_caching_hook", location, <<>>, r.err)
          /\ loop' = [loop EXCEPT !.pc = IF r.err = OK THEN "for" ELSE "exit",
                                  !.err = r.err]

\* One iteration of the for loop, on the batch of step loop.i.
Iteration ==
    /\ loop.pc = "for"
    /\ loop.i < MaxBatches
    /\ LET i == loop.i
           toks == Toks(i)
           f == forward(Scope, module_dict[location], layer_output(toks))
           tokens_cache == Append(loop.tokens_cache, toks)
       IN IF f.err # OK THEN
              /\ Store(f.s)
              /\ last' = Call("forward", <<>>, <<>>, f.err)
              /\ loop' = [loop EXCEPT !.pc = "exit", !.err = f.err]
          ELSE IF ~(i % write_every = 0 /\ i > 0) THEN
              /\ Store(f.s)
              /\ last' = Call("forward", <<>>, <<>>, OK)
              /\ loop' = [loop EXCEPT !.i = i + 1,
                                      !.tokens_cache = tokens_cache]
          ELSE IF ~loop.cat_takes_tensor THEN
              /\ Store(f.s)
              /\ last' = Call("forward", <<>>, <<>>, OK)
              /\ loop' = [loop EXCEPT !.pc = "exit", !.err = "TypeError",
                                      !.tokens_cache = tokens_cache]
          ELSE LET all_acts == cat(f.s.activations_cache[location])
                   all_toks == cat(toks)
                   c == clear_all_caches(f.s)
               IN /\ Store(c.s)
                  /\ last' = Call("clear_all_caches", <<>>, <<>>, c.err)
                  /\ loop' = [loop EXCEPT
                         !.i = i + 1,
                         !.saved = Append(@, [name |-> file_name(loop.num_written),
                                              activations |-> all_acts,
                                              tokens |-> all_toks]),
                         !.num_written = @ + 1,
                         !.tokens_cache = <<>>]

\* The dataloader has no batch left: the loop, and main, end.
Exhausted ==
    /\ loop.pc = "for"
    /\ loop' = [loop EXCEPT !.pc = "exit"]
    /\ UNCHANGED <<model, module_dict, hooks, forward_hooks, activations_cache,
                   override_store, next_id, last>>

NextDriver == Attach \/ Iteration \/ Exhausted

SpecDriver == InitDriver /\ [][NextDriver]_vars

----------------------------------------------------------------------------
(* What the claims speak of. *)

\* The handles of the callbacks attached to sub-module m, and to any.
AttachedAt(m) == {forward_hooks[m][i].id : i \in DOMAIN forward_hooks[m]}

AttachedIds == UNION {AttachedAt(m) : m \in DOMAIN forward_hooks}

\* The callbacks attached to sub-module m that were built by fn.
CallbacksAt(m, fn) ==
    {i \in DOMAIN forward_hooks[m] : forward_hooks[m][i].fn = fn}

\* Path p is indexed and a caching (an override) callback built for it is
\* attached to its sub-module.
CachingAttached(p) ==
    /\ p \in DOMAIN module_dict
    /\ CallbacksAt(module_dict[p], caching_hook_fn(p)) # {}

OverrideAttached(p) ==
    /\ p \in DOMAIN module_dict
    /\ CallbacksAt(module_dict[p], override_hook_fn(p)) # {}

\* The caching hook add_caching_hook(p) registered last is the one hooks
\* records under 'cache-'+p, it is attached, and p has a buffer.
CachingHookLive(p) ==
    /\ p \in DOMAIN module_dict
    /\ p \in DOMAIN activations_cache
    /\ CACHE_PREFIX \o p \in DOMAIN hooks
    /\ \E i \in CallbacksAt(module_dict[p], caching_hook_fn(p)) :
           forward_hooks[module_dict[p]][i].id = hooks[CACHE_PREFIX \o p]

\* The step taken was this call.
Called(op) == last'.op = op

CalledOn(op, p) == last'.op = op /\ last'.path = p

ForwardAt(p) ==
    /\ p \in DOMAIN module_dict
    /\ last'.op = "forward"
    /\ last'.module = module_dict[p]

----------------------------------------------------------------------------
(* C1: after add_caching_hook(p) on an indexed path p, whatever the state  *)
(* it is called in, the buffer of p counts the forward calls that reach p: *)
(* it is empty right after the call, and every forward call that reaches p *)
(* while that hook is registered and the buffer is neither cleared nor     *)
(* removed appends exactly one entry, the output seen in that call; so it  *)
(* holds N entries after N calls, in call order.                           *)
C1_BufferCountsInvocations ==
    [][\A p \in PathArgs :
        /\ (CalledOn("add_caching_hook", p) /\ last'.err = OK)
               => activations_cache'[p] = <<>>
        /\ (ForwardAt(p) /\ CachingHookLive(p))
               => /\ last'.err = OK
                  /\ Len(activations_cache'[p]) = Len(activations_cache[p]) + 1
                  /\ SubSeq(activations_cache'[p], 1, Len(activations_cache[p]))
                         = activations_cache[p]
                  /\ activations_cache'[p][Len(activations_cache'[p])]
                         \in {last'.raw, last'.out}]_vars

----------------------------------------------------------------------------
(* C2: with an override hook attached at p, override(p, T) stores T, and   *)
(* the next forward call that reaches p, like every forward call made      *)
(* while the slot holds T, returns T; clear_override(p) empties the slot,  *)
(* and the next forward call that reaches p returns the sub-module's own   *)
(* output again.                                                           *)
C2_OverrideThenClear ==
    [][\A p \in PathArgs :
        /\ \A t \in Tensors :
               Override(p, t) =>
                   /\ override_store'[p] = t
                   /\ OverrideAttached(p) =>
                          \A raw \in Tensors :
                              LET f == forward(Scope', module_dict[p], raw)
                              IN f.err = OK => f.out = t
        /\ ClearOverride(p) =>
               /\ override_store'[p] = None
               /\ OverrideAttached(p) =>
                      \A raw \in Tensors :
                          LET f == forward(Scope', module_dict[p], raw)
                          IN f.err = OK => f.out = raw
        /\ (ForwardAt(p) /\ OverrideAttached(p) /\ last'.err = OK) =>
               last'.out = IF override_store[p] # None
                           THEN override_store[p] ELSE last'.raw]_vars

\* A forward call at a path with an override hook returned the stored
\* tensor in place of the output the sub-module computed.
C2_Witness ==
    \E p \in DOMAIN module_dict :
        /\ last.op = "forward" /\ last.err = OK
        /\ last.module = module_dict[p]
        /\ OverrideAttached(p)
        /\ override_store[p] \in Tensors
        /\ last.out = override_store[p]
        /\ last.out # last.raw

----------------------------------------------------------------------------
(* C3: add_override_hook(p) leaves the slot of p absent (None), only       *)
(* override(p, .) makes it a tensor, and while it is None every forward    *)
(* call that reaches p returns the output the sub-module computed: with    *)
(* override(p, .) never called, the hook passes every output through.      *)
C3_PassThrough ==
    [][\A p \in PathArgs :
        /\ (CalledOn("add_override_hook", p) /\ last'.err = OK) =>
               override_store'[p] = None
        /\ ( /\ p \in DOMAIN override_store'
             /\ override_store'[p] # None
             /\ (p \in DOMAIN override_store => override_store[p] = None) )
               => CalledOn("override", p)
        /\ ( /\ ForwardAt(p) /\ OverrideAttached(p)
             /\ override_store[p] = None /\ last'.err = OK )
               => last'.out = last'.raw]_vars

\* A forward call at a path whose override hook is attached and whose slot
\* is None returned the output the sub-module computed.
C3_Witness ==
    \E p \in DOMAIN module_dict :
        /\ last.op = "forward" /\ last.err = OK
        /\ last.module = module_dict[p]
        /\ OverrideAttached(p)
        /\ override_store[p] = None
        /\ last.out = last.raw
        /\ last.raw \in Tensors

----------------------------------------------------------------------------
(* C4: remove_cache(p) and remove_all_caches(), on a path p whose caching  *)
(* hook is registered and attached, leave hooks and the attached callbacks *)
(* as they were, so 'cache-'+p is still in hooks; the next forward call    *)
(* that reaches p raises KeyError in the callback, as does every forward   *)
(* call at a sub-module with a caching callback whose buffer is missing.   *)
C4_RemoveCacheLeavesHook ==
    [][\A p \in PathArgs :
        /\ ( /\ CachingHookLive(p)
             /\ \/ CalledOn("remove_cache", p)
                \/ Called("remove_all_caches") )
               => /\ last'.err = OK
                  /\ p \notin DOMAIN activations_cache'
                  /\ hooks' = hooks
                  /\ forward_hooks' = forward_hooks
                  /\ CACHE_PREFIX \o p \in DOMAIN hooks'
                  /\ \A raw \in Tensors :
                         forward(Scope', module_dict[p], raw).err = KeyError
        /\ ( /\ ForwardAt(p) /\ CachingAttached(p)
             /\ p \notin DOMAIN activations_cache )
               => /\ last'.err = KeyError
                  /\ activations_cache' = activations_cache]_vars

\* A forward call raised KeyError at a path whose caching hook is still in
\* hooks and attached while its buffer is gone.
C4_Witness ==
    \E p \in DOMAIN module_dict :
        /\ last.op = "forward" /\ last.err = KeyError
        /\ last.module = module_dict[p]
        /\ CACHE_PREFIX \o p \in DOMAIN hooks
        /\ CachingAttached(p)
        /\ p \notin DOMAIN activations_cache

----------------------------------------------------------------------------
\* The step taken registered a hook under hook_name n.
RegisteredAs(n) ==
    /\ last'.err = OK
    /\ \/ last'.op = "add_hook" /\ last'.name = n
       \/ last'.op = "add_caching_hook" /\ CACHE_PREFIX \o last'.path = n
       \/ last'.op = "add_override_hook" /\ OVERRIDE_PREFIX \o last'.path = n

----------------------------------------------------------------------------
(* C5: registering under a hook_name that hooks already holds records the  *)
(* new handle under that name and leaves the earlier callback attached,    *)
(* no longer recorded under any name; a callback attached but recorded     *)
(* under no name stays attached whatever is called next, remove_hook and   *)
(* remove_all_hooks included; and every attached caching callback fires in *)
(* every forward call of its sub-module, each appending one entry.         *)
C5_ReRegistrationLeaks ==
    [][/\ \A n \in HookNameArgs :
              (RegisteredAs(n) /\ n \in DOMAIN hooks) =>
                  /\ DOMAIN hooks' = DOMAIN hooks
                  /\ hooks'[n] \notin AttachedIds
                  /\ hooks'[n] \in AttachedIds'
                  /\ hooks[n] \in AttachedIds'
                  /\ hooks[n] \notin Range(hooks')
       /\ \A id \in AttachedIds \ Range(hooks) : id \in AttachedIds'
       /\ \A p \in PathArgs :
              (ForwardAt(p) /\ last'.err = OK /\ p \in DOMAIN activations_cache)
                  => Len(activations_cache'[p]) =
                         Len(activations_cache[p])
                         + Cardinality(CallbacksAt(module_dict[p],
                                                   caching_hook_fn(p)))]_vars

\* After remove_hook or remove_all_hooks emptied hooks, a callback is
\* still attached: the one an earlier re-registration left behind.
C5_Witness ==
    /\ last.op \in {"remove_hook", "remove_all_hooks"}
    /\ last.err = OK
    /\ hooks = EmptyDict
    /\ AttachedIds # {}

----------------------------------------------------------------------------
(* C6: remove_hook(name) on a name in hooks returns, deletes that entry    *)
(* and detaches the callback of its handle, and nothing else; on a name    *)
(* not in hooks it raises KeyError and leaves hooks, the caches, the       *)
(* override slots and the attached callbacks as they were.                 *)
C6_RemoveHook ==
    [][\A n \in HookNameArgs :
        RemoveHook(n) =>
            IF n \in DOMAIN hooks
            THEN /\ last'.err = OK
                 /\ hooks' = Del(hooks, n)
                 /\ hooks[n] \in AttachedIds
                 /\ AttachedIds' = AttachedIds \ {hooks[n]}
                 /\ activations_cache' = activations_cache
                 /\ override_store' = override_store
            ELSE /\ last'.err = KeyError
                 /\ UNCHANGED <<hooks, forward_hooks, activations_cache,
                                override_store>>]_vars

\* remove_hook raised on a name that is not in hooks, after the hooks
\* registered before had been removed and detached.
C6_Witness ==
    /\ last.op = "remove_hook"
    /\ last.err = KeyError
    /\ last.name \notin DOMAIN hooks
    /\ next_id > 1
    /\ hooks = EmptyDict
    /\ AttachedIds = {}

----------------------------------------------------------------------------
(* C7: in every reachable state remove_all_hooks() returns without error,  *)
(* leaves hooks empty and exactly the callbacks whose handles hooks held   *)
(* detached, changes nothing when hooks is empty, and called again right   *)
(* after returns again and changes nothing.                                *)
C7_RemoveAllHooks ==
    LET r == remove_all_hooks(Scope)
        ids(fh) == UNION {{fh[m][i].id : i \in DOMAIN fh[m]} : m \in DOMAIN fh}
    IN /\ r.err = OK
       /\ r.s.hooks = EmptyDict
       /\ ids(r.s.forward_hooks) = AttachedIds \ Range(hooks)
       /\ r.s.activations_cache = activations_cache
       /\ r.s.override_store = override_store
       /\ hooks = EmptyDict => r.s = Scope
       /\ remove_all_hooks(r.s) = Return(r.s)

\* remove_all_hooks returned and emptied hooks, and the state it left is
\* one it was called in again.
C7_Witness ==
    /\ last.op = "remove_all_hooks"
    /\ last.err = OK
    /\ hooks = EmptyDict
    /\ next_id > 1

----------------------------------------------------------------------------
(* C8: clear_cache(p) on a path with a buffer returns and empties that     *)
(* buffer; every other buffer, the set of paths with a buffer, hooks, the  *)
(* attached callbacks and the override slots stay as they were, and with   *)
(* the caching hook attached the next forward call that reaches p appends  *)
(* to the emptied buffer.  clear_all_caches() empties every buffer and     *)
(* leaves the same things as they were.                                    *)
C8_ClearCacheFrame ==
    [][/\ \A p \in PathArgs :
              (ClearCache(p) /\ p \in DOMAIN activations_cache) =>
                  /\ last'.err = OK
                  /\ activations_cache' =
                         [activations_cache EXCEPT ![p] = <<>>]
                  /\ UNCHANGED <<hooks, forward_hooks, override_store>>
                  /\ CachingAttached(p) =>
                         \A raw \in Tensors :
                             LET f == forward(Scope', module_dict[p], raw)
                             IN /\ f.err = OK
                                /\ Len(f.s.activations_cache[p]) >= 1
                                /\ f.s.activations_cache[p][1] \in Tensors
       /\ ClearAllCaches =>
              /\ last'.err = OK
              /\ activations_cache' =
                     [k \in DOMAIN activations_cache |-> <<>>]
              /\ UNCHANGED <<hooks, forward_hooks, override_store>>]_vars

\* clear_cache(p) returned and the buffer of p is empty while another
\* path's buffer still holds its entries and the caching hook of p is
\* still attached.
C8_Witness ==
    /\ last.op = "clear_cache"
    /\ last.err = OK
    /\ activations_cache[last.path] = <<>>
    /\ CachingAttached(last.path)
    /\ \E q \in DOMAIN activations_cache :
           q # last.path /\ activations_cache[q] # <<>>

----------------------------------------------------------------------------
(* C9: clear_cache(p) on a path with no buffer raises KeyError and leaves  *)
(* the caches, hooks, attached callbacks and slots as they were, so no     *)
(* buffer is created; clear_all_caches() with no buffer returns and        *)
(* changes nothing.                                                        *)
C9_ClearCacheMissing ==
    [][/\ \A p \in PathArgs :
              (ClearCache(p) /\ p \notin DOMAIN activations_cache) =>
                  /\ last'.err = KeyError
                  /\ UNCHANGED <<hooks, forward_hooks, activations_cache,
                                 override_store, next_id>>
       /\ (ClearAllCaches /\ activations_cache = EmptyDict) =>
              /\ last'.err = OK
              /\ UNCHANGED <<hooks, forward_hooks, activations_cache,
                             override_store, next_id>>]_vars

\* clear_cache raised on a path whose buffer remove_cache had deleted: the
\* path has no buffer though its caching hook is still registered.
C9_Witness ==
    /\ last.op = "clear_cache"
    /\ last.err = KeyError
    /\ last.path \notin DOMAIN activations_cache
    /\ CACHE_PREFIX \o last.path \in DOMAIN hooks

----------------------------------------------------------------------------
\* The names on the way from the root's child down to sub-module i, joined
\* with the separator.
RECURSIVE JoinedPath(_, _)
JoinedPath(t, i) ==
    IF t.parent[i] = 0 THEN t.name[i]
    ELSE JoinedPath(t, t.parent[i]) \o SEP \o t.name[i]

----------------------------------------------------------------------------
(* C10: for every tree whose siblings carry distinct names, the module     *)
(* dict built at construction holds exactly one entry per sub-module, each *)
(* under the dash-joined names from the root's child down to it.           *)
C10_IndexExact ==
    last.op # "new" =>
        /\ DOMAIN module_dict = {JoinedPath(model, i) : i \in Modules(model)}
        /\ Cardinality(DOMAIN module_dict) = Size(model)
        /\ \A i \in Modules(model) : module_dict[JoinedPath(model, i)] = i

----------------------------------------------------------------------------
(* C11: add_hook(callback, module_str, hook_name) on a path that is not in *)
(* the module dict raises KeyError (a LookupError), attaches no callback   *)
(* and leaves hooks as it was; on a path in the module dict it returns,    *)
(* appends the callback, under a fresh handle, to the forward hooks of the *)
(* sub-module the path names and of no other, and records that handle      *)
(* under hook_name.                                                        *)
C11_AddHook ==
    [][\A p \in PathArgs, n \in UserHookNames :
        AddHook(p, n) =>
            IF p \notin DOMAIN module_dict
            THEN /\ last'.err = KeyError
                 /\ UNCHANGED <<hooks, forward_hooks, activations_cache,
                                override_store, next_id>>
            ELSE /\ last'.err = OK
                 /\ next_id \notin AttachedIds
                 /\ forward_hooks' =
                        [forward_hooks EXCEPT ![module_dict[p]] =
                            Append(@, [id |-> next_id, fn |-> ObserverFn])]
                 /\ hooks' = Put(hooks, n, next_id)
                 /\ UNCHANGED <<activations_cache, override_store>>]_vars

\* add_hook raised KeyError on a path the module dict does not hold, with
\* an earlier hook registered, and recorded nothing under the name it was
\* given.
C11_Witness ==
    /\ last.op = "add_hook"
    /\ last.err = KeyError
    /\ last.path \notin DOMAIN module_dict
    /\ last.name \notin DOMAIN hooks
    /\ hooks # EmptyDict

----------------------------------------------------------------------------
\* The callbacks attached to sub-module m under handle id.
WithHandle(m, id) ==
    {i \in DOMAIN forward_hooks[m] : forward_hooks[m][i].id = id}

----------------------------------------------------------------------------
(* C12: remove_hook(name) on a registered name detaches the callback of    *)
(* the recorded handle and keeps every captured value; a detached handle   *)
(* is never attached again; from the next forward call on the removed      *)
(* callback takes no part: a forward call that reaches p appends one entry *)
(* per caching callback still attached, one fewer than before when the     *)
(* removed hook was a caching hook of p and none when it was the only one, *)
(* and returns the sub-module's own output when no override callback is    *)
(* attached any more.                                                      *)
C12_Cancellation ==
    [][/\ \A n \in HookNameArgs :
              (RemoveHook(n) /\ n \in DOMAIN hooks) =>
                  /\ hooks[n] \notin AttachedIds'
                  /\ activations_cache' = activations_cache
                  /\ \A p \in PathArgs :
                         (p \in DOMAIN module_dict /\ p \in DOMAIN activations_cache) =>
                             LET m == module_dict[p]
                                 before == CallbacksAt(m, caching_hook_fn(p))
                                 gone == before \cap WithHandle(m, hooks[n])
                             IN \A raw \in Tensors :
                                    LET f == forward(Scope', m, raw)
                                    IN /\ f.err = OK
                                       /\ Len(f.s.activations_cache[p]) =
                                              Len(activations_cache[p])
                                              + Cardinality(before)
                                              - Cardinality(gone)
                                       /\ SubSeq(f.s.activations_cache[p], 1,
                                                 Len(activations_cache[p]))
                                              = activations_cache[p]
       /\ \A id \in 1..(next_id - 1) :
              id \notin AttachedIds => id \notin AttachedIds'
       /\ \A p \in PathArgs :
              ForwardAt(p) =>
                  /\ (~CachingAttached(p) /\ p \in DOMAIN activations_cache)
                         => activations_cache'[p] = activations_cache[p]
                  /\ (~OverrideAttached(p) /\ last'.err = OK)
                         => last'.out = last'.raw]_vars

\* A forward call reached a path whose caching and override hooks had been
\* removed: it returned the sub-module's own output, and the buffer still
\* holds what was captured before the removal.
C12_Witness ==
    \E p \in DOMAIN module_dict :
        /\ last.op = "forward" /\ last.err = OK
        /\ last.module = module_dict[p]
        /\ last.out = last.raw
        /\ p \in DOMAIN activations_cache
        /\ activations_cache[p] # <<>>
        /\ p \in DOMAIN override_store
        /\ override_store[p] # None
        /\ ~CachingAttached(p)
        /\ ~OverrideAttached(p)
        /\ hooks = EmptyDict

----------------------------------------------------------------------------
(* C13: in every reachable state the override slot of a path holds a       *)
(* tensor ('active') only while an override hook for that path is          *)
(* attached: not before add_override_hook(p) and not after                 *)
(* remove_hook('override-'+p).                                             *)
C13_OverrideStateMachine ==
    \A p \in DOMAIN override_store :
        override_store[p] # None => OverrideAttached(p)

----------------------------------------------------------------------------
(* C14: every entry a forward call that reaches p appends to the buffer of *)
(* p is the output the sub-module itself computed in that call, whatever   *)
(* other hooks are attached at p, an override hook with a tensor in its    *)
(* slot included, registered before or after the caching hook.             *)
C14_CachesRawOutput ==
    [][\A p \in PathArgs :
        ( /\ ForwardAt(p) /\ CachingAttached(p)
          /\ p \in DOMAIN activations_cache /\ last'.err = OK )
            => \A i \in (Len(activations_cache[p]) + 1)..Len(activations_cache'[p]) :
                   activations_cache'[p][i] = last'.raw]_vars

----------------------------------------------------------------------------
\* The scope with every caching callback taken off its sub-module.
without_caching(s) ==
    [s EXCEPT !.forward_hooks =
        [m \in DOMAIN @ |-> SelectSeq(@[m], LAMBDA cb : cb.fn.kind # "cache")]]

----------------------------------------------------------------------------
(* C15: caching hooks only observe: in every reachable state, a forward    *)
(* call of any sub-module computing any output ends as it would, and       *)
(* returns what it would, with the caching callbacks absent.               *)
C15_CachingObserves ==
    \A m \in Modules(model), raw \in Tensors :
        LET f == forward(Scope, m, raw)
            g == forward(without_caching(Scope), m, raw)
        IN f.err = g.err /\ f.out = g.out

----------------------------------------------------------------------------
(* C16: the caching and the override capability of a path p are kept       *)
(* apart.  add_caching_hook(p) with 'override-'+p registered, and          *)
(* add_override_hook(p) with 'cache-'+p registered, leave hooks holding    *)
(* both names under different handles, the other's handle and callback as  *)
(* they were; remove_hook of either name leaves the other name in hooks    *)
(* and its callback attached; override, clear_override and                 *)
(* clear_all_overrides never change activations_cache, and the caching     *)
(* calls never change override_store.                                      *)
C16_Independent ==
    [][/\ \A p \in PathArgs :
           LET c == CACHE_PREFIX \o p
               o == OVERRIDE_PREFIX \o p
           IN /\ ( /\ CalledOn("add_caching_hook", p) /\ last'.err = OK
                   /\ o \in DOMAIN hooks ) =>
                     /\ c # o
                     /\ {c, o} \subseteq DOMAIN hooks'
                     /\ hooks'[o] = hooks[o]
                     /\ hooks'[c] # hooks'[o]
                     /\ hooks[o] \in AttachedIds => hooks[o] \in AttachedIds'
                     /\ hooks'[c] \in AttachedIds'
                     /\ override_store' = override_store
              /\ ( /\ CalledOn("add_override_hook", p) /\ last'.err = OK
                   /\ c \in DOMAIN hooks ) =>
                     /\ {c, o} \subseteq DOMAIN hooks'
                     /\ hooks'[c] = hooks[c]
                     /\ hooks'[c] # hooks'[o]
                     /\ hooks[c] \in AttachedIds => hooks[c] \in AttachedIds'
                     /\ hooks'[o] \in AttachedIds'
                     /\ activations_cache' = activations_cache
              /\ ( /\ Called("remove_hook") /\ last'.name = c
                   /\ {c, o} \subseteq DOMAIN hooks ) =>
                     /\ last'.err = OK
                     /\ o \in DOMAIN hooks'
                     /\ hooks'[o] = hooks[o]
                     /\ hooks[o] \in AttachedIds => hooks[o] \in AttachedIds'
                     /\ OverrideAttached(p) => OverrideAttached(p)'
                     /\ override_store' = override_store
              /\ ( /\ Called("remove_hook") /\ last'.name = o
                   /\ {c, o} \subseteq DOMAIN hooks ) =>
                     /\ last'.err = OK
                     /\ c \in DOMAIN hooks'
                     /\ hooks'[c] = hooks[c]
                     /\ hooks[c] \in AttachedIds => hooks[c] \in AttachedIds'
                     /\ activations_cache' = activations_cache
       /\ (Called("override") \/ Called("clear_override")
               \/ Called("clear_all_overrides"))
              => UNCHANGED <<activations_cache, hooks, forward_hooks>>
       /\ (Called("clear_cache") \/ Called("remove_cache")
               \/ Called("clear_all_caches") \/ Called("remove_all_caches"))
              => UNCHANGED <<override_store, hooks, forward_hooks>>]_vars

\* remove_hook('cache-'+p) returned with both hooks of p registered: the
\* override hook is still in hooks and attached, its slot still holds the
\* tensor, and the buffer still holds what was captured.
C16_Witness ==
    \E p \in DOMAIN module_dict :
        /\ last.op = "remove_hook" /\ last.err = OK
        /\ last.name = CACHE_PREFIX \o p
        /\ OVERRIDE_PREFIX \o p \in DOMAIN hooks
        /\ hooks[OVERRIDE_PREFIX \o p] \in AttachedAt(module_dict[p])
        /\ ~CachingAttached(p)
        /\ p \in DOMAIN override_store /\ override_store[p] # None
        /\ p \in DOMAIN activations_cache /\ activations_cache[p] # <<>>

----------------------------------------------------------------------------
\* The batches whose activations, and whose tokens, a saved tensor holds.
ActBatches(all_acts) ==
    {all_acts[j].acts_of[1].batch : j \in DOMAIN all_acts}

TokBatches(all_toks) == {all_toks[j].batch : j \in DOMAIN all_toks}

----------------------------------------------------------------------------
(* C17: the inference loop writes the activations and clears the cache     *)
(* every write_every batches: it does not end in an error, every file it   *)
(* has written holds the activations of exactly write_every consecutive    *)
(* batches, the k-th file written carries the counter k-1 in its name, and *)
(* right after a write the buffer of the location is empty.                *)
C17_WriteEvery ==
    /\ loop.err = OK
    /\ \A k \in DOMAIN loop.saved :
           LET b == ActBatches(loop.saved[k].activations)
           IN /\ Cardinality(b) = write_every
              /\ Len(loop.saved[k].activations) = write_every
              /\ \E first \in 0..MaxBatches :
                     b = first..(first + write_every - 1)
              /\ loop.saved[k].name = file_name(k - 1)
    /\ (loop.pc = "for" /\ last.op = "clear_all_caches")
           => activations_cache[location] = <<>>

----------------------------------------------------------------------------
(* C18: add_caching_hook(p) and add_override_hook(p) that fail because p   *)
(* is not in the module dict leave activations_cache, override_store,      *)
(* hooks and the attached callbacks exactly as they were; so every key of  *)
(* activations_cache is a path of the module dict.                         *)
C18_FailedAddChangesNothing ==
    [][/\ \A p \in PathArgs :
              ( /\ CalledOn("add_caching_hook", p) \/ CalledOn("add_override_hook", p)
                /\ p \notin DOMAIN module_dict )
                  => /\ last'.err = KeyError
                     /\ UNCHANGED <<activations_cache, override_store, hooks,
                                    forward_hooks>>
       /\ DOMAIN activations_cache' \subseteq DOMAIN module_dict]_vars

----------------------------------------------------------------------------
\* The step taken registered a hook under a name hooks already held.
ReRegistered == \E n \in HookNameArgs : RegisteredAs(n) /\ n \in DOMAIN hooks

----------------------------------------------------------------------------
(* C19: after construction the callbacks attached are those hooks records  *)
(* (none), and every step that is not a registration under a name already  *)
(* in hooks keeps it so, each name with a handle of its own; so as long as *)
(* no such registration is made, attached and recorded callbacks are the   *)
(* same set, remove_all_hooks() leaves no callback attached, and a forward *)
(* call of a sub-module with no callback attached returns the output it    *)
(* computed and changes nothing.                                           *)
C19_RegistrationSymmetry ==
    /\ AttachedIds = Range(hooks)
    /\ [][/\ (AttachedIds = Range(hooks) /\ ~ReRegistered)
                => AttachedIds' = Range(hooks')
          /\ ( /\ AttachedIds = Range(hooks)
               /\ Cardinality(Range(hooks)) = Cardinality(DOMAIN hooks)
               /\ ~ReRegistered )
                => Cardinality(Range(hooks')) = Cardinality(DOMAIN hooks')
          /\ (AttachedIds = Range(hooks) /\ Called("remove_all_hooks"))
                => /\ last'.err = OK
                   /\ hooks' = EmptyDict
                   /\ AttachedIds' = {}
                   /\ \A m \in Modules(model), raw \in Tensors :
                          forward(Scope', m, raw) =
                              [s |-> Scope', err |-> OK, out |-> raw]
          /\ \A m \in Modules(model) :
                 (Called("forward") /\ last'.module = m /\ AttachedAt(m) = {})
                     => /\ last'.err = OK
                        /\ last'.out = last'.raw
                        /\ UNCHANGED <<hooks, forward_hooks, activations_cache,
                                       override_store>>]_vars

\* A forward call after remove_all_hooks() had removed two hooks registered
\* under different names: no callback is attached, the call returned the
\* sub-module's own output and the buffer did not grow.
C19_Witness ==
    /\ last.op = "forward" /\ last.err = OK
    /\ last.out = last.raw
    /\ hooks = EmptyDict
    /\ AttachedIds = {}
    /\ next_id = MaxHooks + 1
    /\ \E p \in DOMAIN activations_cache : activations_cache[p] = <<>>

----------------------------------------------------------------------------
====
